---- MODULE Spec2Model ----
(***************************************************************************)
(* The instance resource of the Oxide Terraform provider                   *)
(* (oxide/resource_instance.go): instanceResource.Delete and the           *)
(* goroutine waitForStoppedInstance it spawns, run against a remote        *)
(* control plane that answers not-found exactly for instances it does not  *)
(* hold and may fail any call with another error.                          *)
(*                                                                         *)
(* The SDK calls return (pointer, error).  What the pointer is when the    *)
(* error is set is decided outside this file, so both outcomes are         *)
(* modelled: a nil pointer and a pointer to a zero value.                  *)
(***************************************************************************)
EXTENDS Integers, Sequences, FiniteSets, TLC

\* ---------------------------------------------------------------- bounds
MaxTime == 3
MaxBudget == 2
MaxList == 2
MaxOps == 2

\* -------------------------------------------------------------- universe
IDs == {"i1", "i2"}
Disks == {"d1", "d2"}
NoDisk == "-"

NoErr == "nil"
NotFound == "NotFound"
Other == "Other"
Unset == "unset"

Stopped == "stopped"
ZeroRunState == ""


VARIABLES
    exists,     \* remote: the instances the control plane holds
    runState,   \* remote: run-state of the instance Delete works on
    attached,   \* remote: disks attached to that instance
    now,        \* wall clock, in seconds
    stateID,    \* state.ID of the record handed to Delete
    deadline,   \* instant at which the delete budget expires
    pc,         \* position of Delete
    result,     \* how Delete ended: none, success, error, panic
    diag,       \* summary of the diagnostic Delete added, or Unset
    disks,      \* the pointer InstanceDiskList returned
    idx,        \* position of the range loop over disks.Items
    e,          \* the value Delete received from ch
    ppc,        \* position of waitForStoppedInstance
    presp,      \* resp of its last InstanceView
    perr,       \* err of its last InstanceView
    crashed,    \* the process died of a panic
    calls,      \* remote calls issued so far, in order
    cpc,        \* position of Create/Read/Update: off, idle, createWait, readWait
    opName,     \* the operation the host invoked last: none, create, read, update
    opResult,   \* how it ended: none, success, error
    opDiag,     \* summary of the diagnostic it added, or Unset
    opDeadline, \* instant at which its budget expires
    nOps,       \* operations invoked so far
    plan,       \* <<the plan the host hands to Create>>, or <<>>
    tfstate,    \* <<the ResourceState the host holds>>, or <<>> when Absent
    rinst,      \* remote: <<the instance create-instance stored>>, or <<>>
    inflight    \* <<the answer of the remote call in flight>>, or <<>>

cruVars == <<cpc, opName, opResult, opDiag, opDeadline, nOps, plan, tfstate, rinst, inflight>>

vars == <<exists, runState, attached, now, stateID, deadline, pc,
          result, diag, disks, idx, e, ppc, presp, perr, crashed, calls, cruVars>>

remoteVars == <<exists, runState, attached>>
deleteVars == <<stateID, deadline, pc, result, diag, disks, idx, e>>
pollVars == <<ppc, presp, perr>>

\* ------------------------------------------------------- pure helpers

\* Error Classifier: does the error stand for HTTP not-found.
is404(err) == err = NotFound

\* What the remote answers to a call on instance id.
RemoteErrs(id) == IF id \in exists THEN {NoErr, Other} ELSE {NotFound, Other}

\* One remote call as the control plane saw it: ret is what came back with
\* err (the listed disks of a list, the run-state of a view).
Call(op, id, disk, err, ret) ==
    [op |-> op, instance |-> id, disk |-> disk, err |-> err, ret |-> ret, at |-> now]

\* All orderings of a set of disks.
Orderings(S) ==
    {s \in [1..Cardinality(S) -> S] : \A i, j \in 1..Cardinality(S) : i # j => s[i] # s[j]}

\* *InstanceDiskResultsPage and *Instance values; nil |-> TRUE is the nil pointer.
Page(items) == [nil |-> FALSE, Items |-> items]
NilPage == [nil |-> TRUE, Items |-> <<>>]
Instance(rs) == [nil |-> FALSE, RunState |-> rs]
NilInstance == [nil |-> TRUE, RunState |-> ZeroRunState]

\* ------------------------------------------------------------------ Init

Init ==
    /\ exists \in SUBSET IDs
    /\ runState \in {"running", Stopped}
    /\ attached \in SUBSET Disks
    /\ now = 0
    /\ stateID \in IDs
    /\ deadline = 0
    /\ pc = "idle"
    /\ result = "none"
    /\ diag = Unset
    /\ disks = NilPage
    /\ idx = 1
    /\ e = Unset
    /\ ppc = "off"
    /\ presp = NilInstance
    /\ perr = Unset
    /\ crashed = FALSE
    /\ calls = <<>>
    /\ cpc = "off"
    /\ opName = "none"
    /\ opResult = "none"
    /\ opDiag = Unset
    /\ opDeadline = 0
    /\ nOps = 0
    /\ plan = <<>>
    /\ tfstate = <<>>
    /\ rinst = <<>>
    /\ inflight = <<>>

\* ------------------------------------------------- how a step of Delete ends

\* resp.Diagnostics.AddError(summary, ...); return
Fail(summary) ==
    /\ pc' = "done"
    /\ result' = "error"
    /\ diag' = summary

\* Delete falls off its end with no diagnostic added.
Return ==
    /\ pc' = "done"
    /\ result' = "success"
    /\ diag' = diag

\* A nil dereference in Delete itself: the process dies.
PanicInDelete ==
    /\ pc' = "done"
    /\ result' = "panic"
    /\ diag' = diag
    /\ crashed' = TRUE

Goto(next) ==
    /\ pc' = next
    /\ result' = result
    /\ diag' = diag

\* Leave a step of Delete the way next says.
Finish(next, summary) ==
    IF next = "fail" THEN Fail(summary) /\ crashed' = crashed
    ELSE IF next = "panic" THEN PanicInDelete
    ELSE IF next = "return" THEN Return /\ crashed' = crashed
    ELSE Goto(next) /\ crashed' = crashed

\* if err != nil { if !is404(err) { AddError; return } }
Fatal(err) == err # NoErr /\ ~is404(err)

\* The loop leaves after its first iteration.
LoopNextFirstOnly(items, i) == IF i > 1 \/ i > Len(items) THEN "stop" ELSE "detach"

\* The step the range loop over disks.Items is at once i disks are behind it.
LoopNext(items, i) == IF i > Len(items) THEN "stop" ELSE "detach"

\* ---------------------------------------------------------------- Delete

\* Lines 314-329: read the state record, derive the delete timeout.  The
\* context made from it is assigned to the blank identifier.
Start ==
    /\ pc = "idle"
    /\ ~crashed
    /\ \E budget \in 1..MaxBudget, frameworkOk \in BOOLEAN :
          /\ deadline' = now + budget
          /\ IF frameworkOk
                THEN Goto("list")
                ELSE /\ pc' = "done"
                     /\ result' = "error"
                     /\ diag' = "framework"
    /\ UNCHANGED <<cruVars, remoteVars, now, stateID, disks, idx, e, pollVars, crashed, calls>>

\* What InstanceDiskList hands back for an error outcome.
ListReturns(err) ==
    IF err = NoErr
       THEN {Page(s) : s \in Orderings(attached)}
       ELSE {NilPage, Page(<<>>)}

\* Lines 331-347: list the attached disks, classify the error, enter the loop.
ListNext(err, page) ==
    IF Fatal(err) THEN "fail"
    ELSE IF page.nil THEN "panic"
    ELSE LoopNext(page.Items, 1)

ListDisks ==
    /\ pc = "list"
    /\ ~crashed
    /\ \E err \in RemoteErrs(stateID) : \E page \in ListReturns(err) :
          /\ calls' = Append(calls, Call("list", stateID, NoDisk, err, page.Items))
          /\ disks' = page
          /\ idx' = 1
          /\ Finish(ListNext(err, page), "Unable to list attached disks:")
    /\ UNCHANGED <<cruVars, remoteVars, now, stateID, deadline, e, pollVars>>

\* The instance identifier passed where the disk identifier belongs.
DetachParamsWrongDisk(id, disk) == [Instance |-> id, Disk |-> id]

\* Lines 348-353: the parameters of one InstanceDiskDetach.
DetachParams(id, disk) == [Instance |-> id, Disk |-> disk]

DetachNext(err, items, i) ==
    IF Fatal(err) THEN "fail" ELSE LoopNext(items, i + 1)

\* Lines 347-364: one iteration of the loop.
DetachDisk ==
    /\ pc = "detach"
    /\ ~crashed
    /\ LET p == DetachParams(stateID, disks.Items[idx]) IN
       \E err \in RemoteErrs(p.Instance) :
          /\ calls' = Append(calls, Call("detach", p.Instance, p.Disk, err, <<>>))
          /\ attached' = IF err = NoErr /\ p.Instance = stateID
                            THEN attached \ {p.Disk} ELSE attached
          /\ idx' = idx + 1
          /\ Finish(DetachNext(err, disks.Items, idx), "Unable to detach disk:")
    /\ UNCHANGED <<cruVars, exists, runState, now, stateID, deadline, disks, e, pollVars>>

\* A failed stop is tried again.
StopNextRetries(err) == IF Fatal(err) THEN "stop" ELSE "recv"

StopNext(err) == IF Fatal(err) THEN "fail" ELSE "recv"

\* Lines 366-381: stop the instance; then make ch and start the goroutine.
StopInstance ==
    /\ pc = "stop"
    /\ ~crashed
    /\ \E err \in RemoteErrs(stateID) :
          /\ calls' = Append(calls, Call("stop", stateID, NoDisk, err, <<>>))
          /\ runState' = IF err = NoErr /\ runState = "running" THEN "stopping" ELSE runState
          /\ Finish(StopNext(err), "Unable to stop instance:")
          /\ ppc' = IF StopNext(err) = "recv" THEN "view" ELSE ppc
    /\ UNCHANGED <<cruVars, exists, attached, now, stateID, deadline, disks, idx, e, presp, perr>>

\* Line 382 with the send it meets (411 or 420): ch is unbuffered, the send
\* and the receive are one step, and both sides go on.
Receive ==
    /\ pc = "recv"
    /\ ppc \in {"sendErr", "sendNil"}
    /\ ~crashed
    /\ e' = IF ppc = "sendErr" THEN perr ELSE NoErr
    /\ ppc' = IF ppc = "sendErr" THEN "check" ELSE "done"
    /\ pc' = "handle"
    /\ UNCHANGED <<cruVars, remoteVars, now, stateID, deadline, result, diag, disks, idx,
                   presp, perr, crashed, calls>>

\* A nil result ends Delete at once, with no diagnostic and no delete call.
RecvNextNoDelete(err) ==
    IF is404(err) THEN "delete"
    ELSE IF err = NoErr THEN "return"
    ELSE "fail"

\* Lines 383-390 on the value received: the branch is taken for every e that
\* is not a not-found, and e.Error() of a nil error panics.
RecvNext(err) ==
    IF is404(err) THEN "delete"
    ELSE IF err = NoErr THEN "panic"
    ELSE "fail"

HandleReceived ==
    /\ pc = "handle"
    /\ ~crashed
    /\ Finish(RecvNext(e), "Unable to stop instance:")
    /\ UNCHANGED <<cruVars, remoteVars, now, stateID, deadline, disks, idx, e, pollVars, calls>>

DeleteNext(err) == IF Fatal(err) THEN "fail" ELSE "return"

\* Lines 392-404.
DeleteInstance ==
    /\ pc = "delete"
    /\ ~crashed
    /\ \E err \in RemoteErrs(stateID) :
          /\ calls' = Append(calls, Call("delete", stateID, NoDisk, err, <<>>))
          /\ exists' = IF err = NoErr THEN exists \ {stateID} ELSE exists
          /\ Finish(DeleteNext(err), "Unable to delete instance:")
    /\ UNCHANGED <<cruVars, runState, attached, now, stateID, deadline, disks, idx, e, pollVars>>

\* ------------------------------------------------ waitForStoppedInstance

\* What InstanceView hands back.
ViewReturns(err) ==
    IF err = NoErr THEN {Instance(runState)} ELSE {NilInstance, Instance(ZeroRunState)}

\* Lines 408-412: fetch; an error is sent on ch.
PollView ==
    /\ ppc = "view"
    /\ ~crashed
    /\ \E err \in RemoteErrs(stateID) : \E resp \in ViewReturns(err) :
          /\ calls' = Append(calls, Call("view", stateID, NoDisk, err, <<resp.RunState>>))
          /\ perr' = err
          /\ presp' = resp
          /\ ppc' = IF err # NoErr THEN "sendErr" ELSE "check"
    /\ UNCHANGED <<cruVars, remoteVars, now, deleteVars, crashed>>

\* The loop ends on any run-state but running.
IsStoppedAnyNotRunning(rs) == rs # "running"

\* Line 413: the comparison that ends the loop.
IsStopped(rs) == rs = Stopped

PollCheckNext(resp) ==
    IF resp.nil THEN "panic"
    ELSE IF IsStopped(resp.RunState) THEN "sendNil"
    ELSE "sleep"

\* Lines 413-415: resp.RunState is read whatever err was.
PollCheck ==
    /\ ppc = "check"
    /\ ~crashed
    /\ LET next == PollCheckNext(presp) IN
       IF next = "panic"
          THEN /\ crashed' = TRUE
               /\ ppc' = "panicked"
               /\ result' = IF pc = "done" THEN result ELSE "panic"
          ELSE /\ crashed' = crashed
               /\ ppc' = next
               /\ result' = result
    /\ UNCHANGED <<cruVars, remoteVars, now, stateID, deadline, pc, diag, disks, idx, e, presp, perr, calls>>

\* Line 418: time.Sleep(time.Second).
PollSleep ==
    /\ ppc = "sleep"
    /\ ~crashed
    /\ now < MaxTime
    /\ now' = now + 1
    /\ ppc' = "view"
    /\ UNCHANGED <<cruVars, remoteVars, deleteVars, presp, perr, crashed, calls>>

\* ------------------------------------------------------ the remote system

\* The asynchronous stop completes.
RemoteStopCompletes ==
    /\ stateID \in exists
    /\ runState = "stopping"
    /\ runState' = Stopped
    /\ UNCHANGED <<cruVars, exists, attached, now, deleteVars, pollVars, crashed, calls>>

\* Another actor removes the instance while Delete runs.
RemoteVanish ==
    /\ pc # "idle"
    /\ stateID \in exists
    /\ exists' = exists \ {stateID}
    /\ UNCHANGED <<cruVars, runState, attached, now, deleteVars, pollVars, crashed, calls>>

Next ==
    \/ Start
    \/ ListDisks
    \/ DetachDisk
    \/ StopInstance
    \/ Receive
    \/ HandleReceived
    \/ DeleteInstance
    \/ PollView
    \/ PollCheck
    \/ PollSleep
    \/ RemoteStopCompletes
    \/ RemoteVanish

Spec == Init /\ [][Next]_vars

\* ------------------------------------------------- Create, Read, Update

DQ == "\""
BS == "\\"
NullString == <<"<", "n", "u", "l", "l", ">">>

\* An element of attach_to_disks or external_ips: a known string or null.
Known(str) == [kind |-> "known", value |-> str]
NullValue == [kind |-> "null", value |-> <<>>]
ElemValues == {Known(<<"d", DQ>>), NullValue}
Lists == UNION {[1..k -> ElemValues] : k \in 0..MaxList}

Names == {"n1", "n2"}
Descriptions == {"a test"}
Memories == {1, 2}
CpuCounts == {2}
StartConfigs == {"null", "true", "false"}
NewID == "i1"

\* The plans the host can hand to Create; start is the configured value.
Plans ==
    [name : Names, description : Descriptions, memory : Memories, ncpus : CpuCounts,
     start : StartConfigs, disks : Lists, ips : Lists]

\* Lines 103-108: start_on_create is Optional and Computed with Default
\* StaticBool(true); the plan Create reads carries the defaulted value.
StartOnCreate(cfg) == IF cfg = "null" THEN TRUE ELSE cfg = "true"

RECURSIVE Quoted(_)
\* The %q form of a string, without its surrounding quotes.
Quoted(str) ==
    IF str = <<>> THEN <<>>
    ELSE LET c == Head(str) IN
         (IF c = DQ THEN <<BS, DQ>> ELSE IF c = BS THEN <<BS, BS>> ELSE <<c>>)
            \o Quoted(Tail(str))

\* Line 192: disk.String() of a list element.
ValueString(v) ==
    IF v.kind = "null" THEN NullString ELSE <<DQ>> \o Quoted(v.value) \o <<DQ>>

SyntaxError == [ok |-> FALSE, s |-> <<>>]

RECURSIVE Unescape(_)
\* The body of a double-quoted literal, escapes decoded.
Unescape(body) ==
    IF body = <<>> THEN [ok |-> TRUE, s |-> <<>>]
    ELSE LET c == Head(body) IN
         IF c = DQ THEN SyntaxError
         ELSE IF c = BS
            THEN IF Len(body) < 2 \/ body[2] \notin {DQ, BS} THEN SyntaxError
                 ELSE LET r == Unescape(Tail(Tail(body))) IN
                      [ok |-> r.ok, s |-> IF r.ok THEN <<body[2]>> \o r.s ELSE <<>>]
         ELSE LET r == Unescape(Tail(body)) IN
              [ok |-> r.ok, s |-> IF r.ok THEN <<c>> \o r.s ELSE <<>>]

\* Line 192: strconv.Unquote.
Unquote(tok) ==
    IF Len(tok) < 2 \/ tok[1] # DQ \/ tok[Len(tok)] # DQ THEN SyntaxError
    ELSE Unescape(SubSeq(tok, 2, Len(tok) - 1))

\* A list holds an element whose String() does not unquote.
HasBadToken(list) == \E i \in 1..Len(list) : ~Unquote(ValueString(list[i])).ok

\* The names the loop appended: every element that unquoted.
Unquoted(list) ==
    LET good == SelectSeq(list, LAMBDA v : Unquote(ValueString(v)).ok) IN
    [i \in 1..Len(good) |-> Unquote(ValueString(good[i])).s]

\* An element that does not unquote is skipped in the external_ips loop.
TranslateNextSkipsBadIPs(p) ==
    IF HasBadToken(p.disks) THEN "diskErr" ELSE "call"

\* Lines 190-230: both loops return at the first element that fails.
TranslateNext(p) ==
    IF HasBadToken(p.disks) THEN "diskErr"
    ELSE IF HasBadToken(p.ips) THEN "ipErr"
    ELSE "call"

\* Lines 165-186, 210, 230: the create-instance body.
CreateBody(p) ==
    [Name |-> p.name, Description |-> p.description, Memory |-> p.memory,
     Ncpus |-> p.ncpus, Start |-> StartOnCreate(p.start),
     Disks |-> Unquoted(p.disks), ExternalIps |-> Unquoted(p.ips),
     NetworkInterfaces |-> "none"]

\* What the remote stores for an accepted create-instance.
Stored(body) ==
    [Id |-> NewID, Name |-> body.Name, Description |-> body.Description,
     Memory |-> body.Memory, Ncpus |-> body.Ncpus,
     TimeCreated |-> now, TimeModified |-> now]

ZeroInstance ==
    [Id |-> "", Name |-> "", Description |-> "", Memory |-> 0, Ncpus |-> 0,
     TimeCreated |-> 0, TimeModified |-> 0]

\* time.Time.String()
TimeString(t) == <<"time", t>>

\* Lines 243-249: the plan with the computed attributes filled in.
CreateState(p, inst) ==
    [id |-> inst.Id,
     timeCreated |-> TimeString(inst.TimeCreated),
     timeModified |-> TimeString(inst.TimeCreated),
     name |-> p.name, description |-> p.description, memory |-> p.memory,
     ncpus |-> p.ncpus, start |-> StartOnCreate(p.start)]

\* The description of the response is stored as the name.
ReadStateSwapped(st, inst) ==
    [st EXCEPT !.description = inst.Description, !.id = inst.Id,
               !.memory = inst.Memory, !.name = inst.Description,
               !.ncpus = inst.Ncpus,
               !.timeCreated = TimeString(inst.TimeCreated),
               !.timeModified = TimeString(inst.TimeCreated)]

\* Lines 286-300: the prior state with the observed attributes refreshed.
ReadState(st, inst) ==
    [st EXCEPT !.description = inst.Description, !.id = inst.Id,
               !.memory = inst.Memory, !.name = inst.Name,
               !.ncpus = inst.Ncpus,
               !.timeCreated = TimeString(inst.TimeCreated),
               !.timeModified = TimeString(inst.TimeCreated)]

EndOp(res, summary) ==
    /\ cpc' = "idle"
    /\ opResult' = res
    /\ opDiag' = summary
    /\ inflight' = <<>>

crudFrame == <<exists, runState, attached, stateID, deadline, pc, result, diag,
               disks, idx, e, ppc, presp, perr, crashed>>

\* What create-instance answers: a second instance under the same name is
\* refused.
CreateErrs == IF rinst = <<>> THEN {NoErr, Other} ELSE {Other}

\* Lines 149-232: read the plan, derive the timeout, translate, issue the call.
CreateBegin ==
    /\ cpc = "idle"
    /\ tfstate = <<>>
    /\ nOps < MaxOps
    /\ \E budget \in 1..MaxBudget, frameworkOk \in BOOLEAN :
       LET p == plan[1] IN
          /\ opName' = "create"
          /\ nOps' = nOps + 1
          /\ opDeadline' = now + budget
          /\ IF ~frameworkOk
                THEN EndOp("error", "framework") /\ UNCHANGED <<calls, rinst>>
             ELSE IF TranslateNext(p) = "diskErr"
                THEN EndOp("error", "Error attaching instance to disk")
                     /\ UNCHANGED <<calls, rinst>>
             ELSE IF TranslateNext(p) = "ipErr"
                THEN EndOp("error", "Error creating external IP addresses")
                     /\ UNCHANGED <<calls, rinst>>
             ELSE \E err \in CreateErrs :
                     /\ calls' = Append(calls, Call("create", NoDisk, NoDisk, err, <<CreateBody(p)>>))
                     /\ rinst' = IF err = NoErr THEN <<Stored(CreateBody(p))>> ELSE rinst
                     /\ inflight' = <<[err |-> err,
                                       instance |-> IF err = NoErr THEN Stored(CreateBody(p))
                                                    ELSE ZeroInstance]>>
                     /\ cpc' = "createWait"
                     /\ opResult' = "none"
                     /\ opDiag' = Unset
    /\ UNCHANGED <<crudFrame, now, plan, tfstate>>

\* The state is written on every return of create-instance.
CreateReturnAlwaysWrites ==
    /\ cpc = "createWait"
    /\ tfstate' = <<CreateState(plan[1], inflight[1].instance)>>
    /\ EndOp(IF inflight[1].err # NoErr THEN "error" ELSE "success",
             IF inflight[1].err # NoErr THEN "Error creating instance" ELSE Unset)
    /\ UNCHANGED <<crudFrame, now, calls, opName, opDeadline, nOps, plan, rinst>>

\* Lines 232-253: the call returns; the state is set on success.
CreateReturn ==
    /\ cpc = "createWait"
    /\ \E setOk \in BOOLEAN :
          IF inflight[1].err # NoErr
             THEN EndOp("error", "Error creating instance") /\ tfstate' = tfstate
          ELSE IF ~setOk
             THEN EndOp("error", "framework") /\ tfstate' = tfstate
          ELSE /\ EndOp("success", Unset)
               /\ tfstate' = <<CreateState(plan[1], inflight[1].instance)>>
    /\ UNCHANGED <<crudFrame, now, calls, opName, opDeadline, nOps, plan, rinst>>

\* What view-instance answers for the identifier of the state.
ViewErrs(id) ==
    IF rinst # <<>> /\ rinst[1].Id = id THEN {NoErr, Other} ELSE {NotFound, Other}

\* Lines 256-275: read the prior state, derive the timeout, issue the call.
ReadBegin ==
    /\ cpc = "idle"
    /\ tfstate # <<>>
    /\ nOps < MaxOps
    /\ \E budget \in 1..MaxBudget, frameworkOk \in BOOLEAN :
          /\ opName' = "read"
          /\ nOps' = nOps + 1
          /\ opDeadline' = now + budget
          /\ IF ~frameworkOk
                THEN EndOp("error", "framework") /\ calls' = calls
             ELSE \E err \in ViewErrs(tfstate[1].id) :
                     /\ calls' = Append(calls, Call("view", tfstate[1].id, NoDisk, err, <<>>))
                     /\ inflight' = <<[err |-> err,
                                       instance |-> IF err = NoErr THEN rinst[1]
                                                    ELSE ZeroInstance]>>
                     /\ cpc' = "readWait"
                     /\ opResult' = "none"
                     /\ opDiag' = Unset
    /\ UNCHANGED <<crudFrame, now, plan, tfstate, rinst>>

\* A not-found removes the resource from the state.
ReadReturnDropsOnNotFound ==
    /\ cpc = "readWait"
    /\ IF inflight[1].err = NotFound
          THEN EndOp("success", Unset) /\ tfstate' = <<>>
       ELSE IF inflight[1].err # NoErr
          THEN EndOp("error", "Unable to read instance:") /\ tfstate' = tfstate
       ELSE /\ EndOp("success", Unset)
            /\ tfstate' = <<ReadState(tfstate[1], inflight[1].instance)>>
    /\ UNCHANGED <<crudFrame, now, calls, opName, opDeadline, nOps, plan, rinst>>

\* Lines 276-304: the call returns; the state is refreshed on success.
ReadReturn ==
    /\ cpc = "readWait"
    /\ \E setOk \in BOOLEAN :
          IF inflight[1].err # NoErr
             THEN EndOp("error", "Unable to read instance:") /\ tfstate' = tfstate
          ELSE IF ~setOk
             THEN EndOp("error", "framework") /\ tfstate' = tfstate
          ELSE /\ EndOp("success", Unset)
               /\ tfstate' = <<ReadState(tfstate[1], inflight[1].instance)>>
    /\ UNCHANGED <<crudFrame, now, calls, opName, opDeadline, nOps, plan, rinst>>

\* Update writes the state it was handed back.
UpdateViewsInstance ==
    /\ cpc = "idle"
    /\ tfstate # <<>>
    /\ nOps < MaxOps
    /\ opName' = "update"
    /\ nOps' = nOps + 1
    /\ opResult' = "error"
    /\ opDiag' = "Error updating instance"
    /\ calls' = Append(calls, Call("view", tfstate[1].id, NoDisk, NoErr, <<>>))
    /\ UNCHANGED <<crudFrame, now, cpc, opDeadline, plan, tfstate, rinst, inflight>>

\* Lines 307-311: the request is not read; one diagnostic is added.
Update ==
    /\ cpc = "idle"
    /\ tfstate # <<>>
    /\ nOps < MaxOps
    /\ opName' = "update"
    /\ nOps' = nOps + 1
    /\ opResult' = "error"
    /\ opDiag' = "Error updating instance"
    /\ UNCHANGED <<crudFrame, now, calls, cpc, opDeadline, plan, tfstate, rinst, inflight>>

\* The remote call in flight takes one more second.
Tick ==
    /\ cpc \in {"createWait", "readWait"}
    /\ now < MaxTime
    /\ now' = now + 1
    /\ UNCHANGED <<crudFrame, calls, cruVars>>

\* The remote instance changes between two operations: its last-modified
\* timestamp moves on.
RemoteModify ==
    /\ cpc = "idle"
    /\ rinst # <<>>
    /\ rinst[1].TimeModified = rinst[1].TimeCreated
    /\ rinst' = <<[rinst[1] EXCEPT !.TimeModified = rinst[1].TimeCreated + 1]>>
    /\ UNCHANGED <<crudFrame, now, calls, cpc, opName, opResult, opDiag, opDeadline,
                   nOps, plan, tfstate, inflight>>

\* Another actor removes the instance between two operations.
RemoteRemove ==
    /\ cpc = "idle"
    /\ tfstate # <<>>
    /\ rinst # <<>>
    /\ rinst' = <<>>
    /\ UNCHANGED <<crudFrame, now, calls, cpc, opName, opResult, opDiag, opDeadline,
                   nOps, plan, tfstate, inflight>>

InitCRU ==
    /\ exists = {}
    /\ runState = "running"
    /\ attached = {}
    /\ now = 0
    /\ stateID = NewID
    /\ deadline = 0
    /\ pc = "off"
    /\ result = "none"
    /\ diag = Unset
    /\ disks = NilPage
    /\ idx = 1
    /\ e = Unset
    /\ ppc = "off"
    /\ presp = NilInstance
    /\ perr = Unset
    /\ crashed = FALSE
    /\ calls = <<>>
    /\ cpc = "idle"
    /\ opName = "none"
    /\ opResult = "none"
    /\ opDiag = Unset
    /\ opDeadline = 0
    /\ nOps = 0
    /\ plan \in {<<p>> : p \in Plans}
    /\ tfstate = <<>>
    /\ rinst = <<>>
    /\ inflight = <<>>

NextCRU ==
    \/ CreateBegin
    \/ CreateReturn
    \/ ReadBegin
    \/ ReadReturn
    \/ Update
    \/ Tick
    \/ RemoteModify
    \/ RemoteRemove

\* The host invokes Create on an Absent resource, then Read and Update.
SpecCRU == InitCRU /\ [][NextCRU]_vars

InitOps == Init \/ InitCRU
NextOps == Next \/ NextCRU

\* A behaviour is one Delete, or a sequence of Create, Read and Update.
SpecOps == InitOps /\ [][NextOps]_vars

\* ------------------------------------------------------------ properties

Idx == 1..Len(calls)
CallsOf(op) == {i \in Idx : calls[i].op = op}
Issued(op) == CallsOf(op) # {}
Started == pc # "idle"
ViewCount == Cardinality(CallsOf("view"))
LastView == calls[CHOOSE i \in CallsOf("view") : \A j \in CallsOf("view") : j <= i]

\* C1: when list-dependent-disks, every detach-disk and stop-instance
\* succeed and the poller has observed Stopped and delivered its success,
\* Delete goes on to delete-instance and ends in success when that call
\* succeeds or returns not-found; it neither panics nor reports an error
\* before the delete call.
C1_DeleteAfterStopped ==
    (/\ \A i \in CallsOf("list") \cup CallsOf("detach") \cup CallsOf("stop") :
            calls[i].err = NoErr
     /\ e = NoErr)
    => /\ result # "panic"
       /\ pc = "done" =>
            /\ Issued("delete")
            /\ \A i \in CallsOf("delete") :
                  calls[i].err \in {NoErr, NotFound} => result = "success"

\* C2: while every view-instance succeeds with a run-state other than
\* Stopped, no view-instance call and no sleep happens after the budget's
\* deadline, and once the deadline has passed Delete has failed with a
\* timeout error.
C2_TimeoutBounded ==
    (/\ Started
     /\ \A i \in CallsOf("view") : calls[i].err = NoErr /\ calls[i].ret # <<Stopped>>)
    => /\ \A i \in CallsOf("view") : calls[i].at <= deadline
       /\ now <= deadline \/ (pc = "done" /\ result = "error" /\ diag = "timeout")

\* C3: a Delete whose every remote call is answered not-found (the instance
\* is already gone) ends in success: no error is reported and the process
\* does not panic.
C3_IdempotentOnNotFound ==
    (/\ Started
     /\ calls # <<>>
     /\ \A i \in Idx : calls[i].err = NotFound)
    => /\ ~crashed
       /\ result \in {"none", "success"}

\* C4: the poller reaches its success send (line 420) only with Stopped as
\* the run-state of its latest fetch, and from a fetch that observed Stopped
\* it goes to that send with no other fetch.
C4_SuccessOnlyOnStopped ==
    /\ [](/\ (ppc \in {"sendNil", "done"} \/ e = NoErr) =>
                /\ Issued("view")
                /\ LastView.err = NoErr
                /\ LastView.ret = <<Stopped>>
          /\ (Issued("view") /\ LastView.err = NoErr /\ LastView.ret = <<Stopped>>)
                => ppc \in {"check", "sendNil", "done"})
    /\ [][(ppc \in {"sendNil", "done"}) => (ViewCount' = ViewCount)]_vars

\* C4 witness: the poller saw a run-state other than Stopped, slept, then saw
\* Stopped and delivered its success.
C4_Witness ==
    /\ ppc = "done"
    /\ e = NoErr
    /\ \E i \in CallsOf("view") : calls[i].err = NoErr /\ calls[i].ret # <<Stopped>>

\* C5: once stop-instance has returned not-found, Delete issues no further
\* remote call and ends in success.
C5_StopNotFoundShortCircuits ==
    \A i \in CallsOf("stop") :
        calls[i].err = NotFound =>
            /\ i = Len(calls)
            /\ result \in {"none", "success"}

\* C6: once a poller fetch has returned not-found, the poller issues no
\* further fetch and Delete ends in success whatever delete-instance returns.
C6_PollNotFoundShortCircuits ==
    \A i \in CallsOf("view") :
        calls[i].err = NotFound =>
            /\ \A j \in CallsOf("view") : j <= i
            /\ result \in {"none", "success"}

\* C7: a not-found from list-dependent-disks counts as zero disks: no detach
\* is issued and Delete goes on to stop-instance; any other list failure ends
\* Delete with an error before any detach or stop call.
C7_ListNotFoundIsEmpty ==
    \A i \in CallsOf("list") :
        /\ calls[i].err = NotFound =>
              /\ ~Issued("detach")
              /\ result # "panic"
              /\ pc = "stop" \/ Issued("stop")
        /\ calls[i].err = Other =>
              /\ Len(calls) = 1
              /\ pc = "done" /\ result = "error"

\* C8: a failure other than not-found at any step makes Delete fail with an
\* error at that step: Delete ends in an error, and the only calls that follow
\* the failed one are further fetches of a poll that failed.
C8_FatalStopsAtStep ==
    \A i \in Idx :
        calls[i].err = Other =>
            /\ result \in {"none", "error"}
            /\ pc = "done" => result = "error"
            /\ \A j \in Idx : j > i => calls[i].op = "view" /\ calls[j].op = "view"

\* C9: every detach-disk of a Delete call names a disk that a successful
\* list-dependent-disks of the same call returned earlier, and names the
\* instance identifier of the state record.
C9_DetachOnlyListed ==
    \A i \in CallsOf("detach") :
        /\ calls[i].instance = stateID
        /\ \E j \in CallsOf("list") :
              /\ j < i
              /\ calls[j].err = NoErr
              /\ \E k \in 1..Len(calls[j].ret) : calls[j].ret[k] = calls[i].disk

\* C9 witness: a list returned two disks and both were detached.
C9_Witness ==
    /\ Cardinality(CallsOf("detach")) = 2
    /\ \E j \in CallsOf("list") : Len(calls[j].ret) = 2

\* C10: whenever Delete has returned success, the remote system no longer
\* holds the instance (a view of the identifier would return not-found).
C10_SuccessMeansGone ==
    result = "success" => /\ stateID \notin exists
                          /\ RemoteErrs(stateID) = {NotFound, Other}

\* C10 witness: Delete returned success after its delete-instance call.
C10_Witness ==
    /\ result = "success"
    /\ pc = "done"
    /\ Issued("delete")

\* C19: the poll goroutine delivers one terminal result and then terminates,
\* whatever its fetches returned: it never reads the response of a failed
\* fetch, and once Delete has returned it is neither blocked on a send nor
\* fetching nor sleeping.
C19_PollerTerminates ==
    /\ ppc # "panicked"
    /\ ~(ppc = "check" /\ perr # NoErr)
    /\ pc = "done" => ppc \in {"off", "done"}

\* C20: delete-instance is issued only after list-dependent-disks has
\* returned, a detach-disk has been issued for every disk that list returned,
\* stop-instance has been issued and the poller has delivered its result.
C20_DeleteLast ==
    \A i \in CallsOf("delete") :
        /\ \E j \in CallsOf("list") :
              /\ j < i
              /\ \A k \in 1..Len(calls[j].ret) :
                    \E d \in CallsOf("detach") :
                        j < d /\ d < i /\ calls[d].disk = calls[j].ret[k]
        /\ \E j \in CallsOf("stop") : j < i
        /\ e # Unset
        /\ \E j \in CallsOf("view") : j < i

\* C20 witness: delete-instance was issued in a Delete whose list returned
\* two disks.
C20_Witness ==
    /\ Issued("delete")
    /\ \E j \in CallsOf("list") : Len(calls[j].ret) = 2

CreateCount == Cardinality(CallsOf("create"))
ReturnsFrom(wait) == cpc = wait /\ cpc' = "idle"

\* C11: every Update ends in the unsupported-operation error, issues no
\* remote call and leaves the ResourceState (and the remote instance) as
\* they were.
C11_UpdateAlwaysFails ==
    [][(opName' = "update" /\ nOps' # nOps) =>
          /\ opResult' = "error"
          /\ opDiag' = "Error updating instance"
          /\ calls' = calls
          /\ tfstate' = tfstate
          /\ rinst' = rinst]_vars

\* C11 witness: Update has run on a present ResourceState.
C11_Witness ==
    /\ opName = "update"
    /\ opResult = "error"
    /\ tfstate # <<>>

\* C12: with an entry of the disk list or of the IP-pool list that is not a
\* validly quoted string, Create ends in a validation error, create-instance
\* is never called and no ResourceState is written; every create-instance
\* that is called carries the whole of both lists.
C12_MalformedTokenRejected ==
    /\ (HasBadToken(plan[1].disks) \/ HasBadToken(plan[1].ips)) =>
          /\ ~Issued("create")
          /\ tfstate = <<>>
          /\ (opName = "create" /\ cpc = "idle") =>
                /\ opResult = "error"
                /\ opDiag \in {"Error attaching instance to disk",
                               "Error creating external IP addresses", "framework"}
    /\ \A i \in CallsOf("create") :
          /\ Len(calls[i].ret[1].Disks) = Len(plan[1].disks)
          /\ Len(calls[i].ret[1].ExternalIps) = Len(plan[1].ips)

\* C12 witness: Create was refused for a malformed IP-pool entry that follows
\* a well-formed one, with well-formed disk entries.
C12_Witness ==
    /\ opName = "create"
    /\ opDiag = "Error creating external IP addresses"
    /\ Len(plan[1].disks) > 0
    /\ Len(plan[1].ips) = 2
    /\ plan[1].ips[1].kind = "known"
    /\ calls = <<>>

\* C13: when view-instance fails in Read, with not-found or any other
\* error, Read ends in an error and the stored ResourceState is unchanged.
C13_ReadNotFoundIsError ==
    [][(ReturnsFrom("readWait") /\ inflight[1].err # NoErr) =>
          /\ opResult' = "error"
          /\ opDiag' = "Unable to read instance:"
          /\ tfstate' = tfstate
          /\ tfstate' # <<>>]_vars

\* C13 witness: a Read met not-found and ended in an error with the state
\* still held.
C13_Witness ==
    /\ opName = "read"
    /\ cpc = "idle"
    /\ opResult = "error"
    /\ calls[Len(calls)].op = "view"
    /\ calls[Len(calls)].err = NotFound
    /\ tfstate # <<>>

\* C14: no create-instance or view-instance call of Create or Read is in
\* flight after the operation's budget has expired, and an operation that
\* ends after its deadline ends in a timeout failure.
C14_BudgetBounds ==
    /\ cpc \in {"createWait", "readWait"} => now <= opDeadline
    /\ (cpc = "idle" /\ opName \in {"create", "read"} /\ now > opDeadline) =>
          /\ opResult = "error"
          /\ opDiag = "timeout"

\* C15: a successful Create or Read stores the identifier, the creation
\* timestamp and the last-modified timestamp of the server's response.
C15_TimestampsStored ==
    [][((ReturnsFrom("createWait") \/ ReturnsFrom("readWait")) /\ opResult' = "success") =>
          /\ tfstate'[1].id = inflight[1].instance.Id
          /\ tfstate'[1].timeCreated = TimeString(inflight[1].instance.TimeCreated)
          /\ tfstate'[1].timeModified = TimeString(inflight[1].instance.TimeModified)]_vars

\* C16: create-instance is issued only by the step that begins a Create, once;
\* in a Delete, stop-instance and delete-instance are issued at most once and
\* detach-disk at most once for a disk.
C16_NoRetries ==
    /\ [](/\ Cardinality(CallsOf("stop")) <= 1
          /\ Cardinality(CallsOf("delete")) <= 1
          /\ \A i, j \in CallsOf("detach") : calls[i].disk = calls[j].disk => i = j)
    /\ [][/\ CreateCount' <= CreateCount + 1
          /\ (CreateCount' > CreateCount) => (opName' = "create" /\ nOps' = nOps + 1)
          /\ (cpc = "createWait") => (CreateCount' = CreateCount)]_vars

\* C16 witness: a Delete detached two disks, stopped the instance, fetched
\* its state more than once and issued delete-instance.
C16_Witness ==
    /\ Cardinality(CallsOf("detach")) = 2
    /\ Issued("stop")
    /\ ViewCount >= 2
    /\ Issued("delete")

\* C17: when create-instance fails, Create ends in an error, no ResourceState
\* is written and no further remote call is made.
C17_CreateFailureLeavesAbsent ==
    [][(ReturnsFrom("createWait") /\ inflight[1].err # NoErr) =>
          /\ opResult' = "error"
          /\ opDiag' = "Error creating instance"
          /\ tfstate' = <<>>
          /\ calls' = calls]_vars

\* C17 witness: create-instance failed and Create ended with the state Absent.
C17_Witness ==
    /\ opName = "create"
    /\ cpc = "idle"
    /\ opDiag = "Error creating instance"
    /\ Issued("create")
    /\ tfstate = <<>>

====
